---------------------------- MODULE Spec2Model ----------------------------
(***************************************************************************)
(* State-machine model of fetch_scivis.py: a run parses its arguments,     *)
(* GETs the dataset catalog, and then either lists the catalog with size   *)
(* estimates or resolves one dataset, writes its metadata file and fetches *)
(* its volume file unless a file of that name is already present.          *)
(*                                                                         *)
(* Python strings are sequences of one-character strings.  JSON values are *)
(* tagged: [t |-> "str", v |-> chars], [t |-> "num", v |-> n],             *)
(* [t |-> "list", v |-> <<values>>] and [t |-> "dict", v |-> <<members>>], *)
(* a member being [k |-> chars, v |-> value]; a dict keeps insertion order *)
(* and has distinct keys.                                                  *)
(***************************************************************************)
EXTENDS Integers, Sequences, FiniteSets, TLC

VARIABLES pc, argv, args, exit, err, index, i, meta, stdout, fs, gets, pre, runs, remote

vars == <<pc, argv, args, exit, err, index, i, meta, stdout, fs, gets, pre, runs, remote>>

-----------------------------------------------------------------------------
(* Bounds of the model. *)

\* Largest number of records in the remote catalog.
MaxCatalog == 2

\* Largest number of invocations of the script on one working directory.
MaxRuns == 2

-----------------------------------------------------------------------------
(* String literals of the script and of the modelled inputs. *)

S_name == <<"n", "a", "m", "e">>
S_size == <<"s", "i", "z", "e">>
S_type == <<"t", "y", "p", "e">>
S_url == <<"u", "r", "l">>
S_desc == <<"d", "e", "s", "c">>
S_error == <<"e", "r", "r", "o", "r">>

S_uint8 == <<"u", "i", "n", "t", "8">>
S_uint16 == <<"u", "i", "n", "t", "1", "6">>
S_int16 == <<"i", "n", "t", "1", "6">>
S_float32 == <<"f", "l", "o", "a", "t", "3", "2">>
S_float64 == <<"f", "l", "o", "a", "t", "6", "4">>
S_uint32 == <<"u", "i", "n", "t", "3", "2">>

DotJson == <<".", "j", "s", "o", "n">>

CatalogUrl == <<"k", "/", "d", "a", "t", "a", "s", "e", "t", "s", ".", "j", "s", "o", "n">>

\* The value of args.dataset when -d is not given; no string equals it.
None == <<"<None>">>

\* The value of index and of meta before they are assigned.
Unset == [t |-> "unset", v |-> <<>>]

Str(s) == [t |-> "str", v |-> s]
Num(n) == [t |-> "num", v |-> n]
List(xs) == [t |-> "list", v |-> xs]
Dict(ms) == [t |-> "dict", v |-> ms]

-----------------------------------------------------------------------------
(* str.lower(), str.replace(' ', '_') and os.path.basename. *)

Lower(c) ==
  CASE c = "A" -> "a"
    [] c = "B" -> "b"
    [] c = "C" -> "c"
    [] OTHER -> c

Normalize(name) ==
  [k \in 1..Len(name) |-> IF Lower(name[k]) = " " THEN "_" ELSE Lower(name[k])]

Basename(p) ==
  LET slashes == {k \in 1..Len(p) : p[k] = "/"}
      last == IF slashes = {} THEN 0
              ELSE CHOOSE k \in slashes : \A j \in slashes : j <= k
  IN  SubSeq(p, last + 1, Len(p))

-----------------------------------------------------------------------------
(* dict access. *)

Get(d, key) == d.v[CHOOSE k \in 1..Len(d.v) : d.v[k].k = key].v

\* d[key] = val: an existing key keeps its position, a new key is appended.
Put(ms, key, val) ==
  IF \E k \in 1..Len(ms) : ms[k].k = key
  THEN [k \in 1..Len(ms) |-> IF ms[k].k = key THEN [k |-> key, v |-> val] ELSE ms[k]]
  ELSE Append(ms, [k |-> key, v |-> val])

\* dict.values(), in insertion order.
Values(d) == [k \in 1..Len(d.v) |-> d.v[k].v]

-----------------------------------------------------------------------------
(* json.dumps(value, indent=4). *)

DigitChars == <<"0", "1", "2", "3", "4", "5", "6", "7", "8", "9">>

RECURSIVE Digits(_)
Digits(n) ==
  IF n < 10 THEN <<DigitChars[n + 1]>>
  ELSE Append(Digits(n \div 10), DigitChars[(n % 10) + 1])

RECURSIVE Spaces(_)
Spaces(n) == IF n = 0 THEN <<>> ELSE <<" ">> \o Spaces(n - 1)

Newline(level) == <<"\n">> \o Spaces(4 * level)

\* A serializer that forgets to escape: the quote and the backslash go out raw.
EscapeRaw(s) == s

RECURSIVE Escape(_)
Escape(s) ==
  IF s = <<>> THEN <<>>
  ELSE (IF Head(s) \in {"\"", "\\"} THEN <<"\\", Head(s)>> ELSE <<Head(s)>>)
       \o Escape(Tail(s))

DumpsStr(s) == <<"\"">> \o Escape(s) \o <<"\"">>

RECURSIVE Dumps(_, _)
RECURSIVE DumpsItems(_, _, _)
RECURSIVE DumpsMembers(_, _, _)

DumpsItems(xs, k, level) ==
  Dumps(xs[k], level)
  \o (IF k = Len(xs) THEN <<>>
      ELSE <<",">> \o Newline(level) \o DumpsItems(xs, k + 1, level))

DumpsMembers(ms, k, level) ==
  DumpsStr(ms[k].k) \o <<":", " ">> \o Dumps(ms[k].v, level)
  \o (IF k = Len(ms) THEN <<>>
      ELSE <<",">> \o Newline(level) \o DumpsMembers(ms, k + 1, level))

Dumps(x, level) ==
  CASE x.t = "str" -> DumpsStr(x.v)
    [] x.t = "num" -> Digits(x.v)
    [] x.t = "list" ->
         IF x.v = <<>> THEN <<"[", "]">>
         ELSE <<"[">> \o Newline(level + 1) \o DumpsItems(x.v, 1, level + 1)
              \o Newline(level) \o <<"]">>
    [] x.t = "dict" ->
         IF x.v = <<>> THEN <<"{", "}">>
         ELSE <<"{">> \o Newline(level + 1) \o DumpsMembers(x.v, 1, level + 1)
              \o Newline(level) \o <<"}">>

-----------------------------------------------------------------------------
(* json.loads(text): a recursive-descent parser.  A parse step returns     *)
(* [ok, v, n]: whether it succeeded, the value, and the next position.     *)

Bad == [ok |-> FALSE, v |-> Unset, n |-> 0]
Good(val, next) == [ok |-> TRUE, v |-> val, n |-> next]

At(s, k) == IF k >= 1 /\ k <= Len(s) THEN s[k] ELSE "<eof>"

IsDigit(c) == \E d \in 1..10 : DigitChars[d] = c
DigitValue(c) == (CHOOSE d \in 1..10 : DigitChars[d] = c) - 1

RECURSIVE SkipWs(_, _)
SkipWs(s, k) == IF At(s, k) \in {" ", "\n"} THEN SkipWs(s, k + 1) ELSE k

RECURSIVE ParseChars(_, _, _)
ParseChars(s, k, acc) ==
  CASE At(s, k) = "<eof>" -> Bad
    [] At(s, k) = "\"" -> Good(acc, k + 1)
    [] At(s, k) = "\\" ->
         IF At(s, k + 1) \in {"\"", "\\"}
         THEN ParseChars(s, k + 2, Append(acc, At(s, k + 1)))
         ELSE Bad
    [] OTHER -> ParseChars(s, k + 1, Append(acc, At(s, k)))

RECURSIVE ParseNum(_, _, _)
ParseNum(s, k, acc) ==
  IF IsDigit(At(s, k)) THEN ParseNum(s, k + 1, 10 * acc + DigitValue(At(s, k)))
  ELSE Good(Num(acc), k)

RECURSIVE ParseValue(_, _)
RECURSIVE ParseItems(_, _, _)
RECURSIVE ParseMembers(_, _, _)

ParseItems(s, k, acc) ==
  LET r == ParseValue(s, k)
      j == SkipWs(s, r.n)
  IN  IF ~r.ok THEN Bad
      ELSE CASE At(s, j) = "," -> ParseItems(s, j + 1, Append(acc, r.v))
             [] At(s, j) = "]" -> Good(List(Append(acc, r.v)), j + 1)
             [] OTHER -> Bad

ParseMembers(s, k, acc) ==
  LET k1 == SkipWs(s, k)
      key == ParseChars(s, k1 + 1, <<>>)
      k2 == SkipWs(s, key.n)
      val == ParseValue(s, k2 + 1)
      k3 == SkipWs(s, val.n)
  IN  IF At(s, k1) # "\"" THEN Bad
      ELSE IF ~key.ok \/ At(s, k2) # ":" THEN Bad
      ELSE IF ~val.ok THEN Bad
      ELSE CASE At(s, k3) = "," -> ParseMembers(s, k3 + 1, Put(acc, key.v, val.v))
             [] At(s, k3) = "}" -> Good(Dict(Put(acc, key.v, val.v)), k3 + 1)
             [] OTHER -> Bad

ParseValue(s, k) ==
  LET j == SkipWs(s, k)
      c == At(s, j)
      str == ParseChars(s, j + 1, <<>>)
  IN  CASE c = "\"" -> IF str.ok THEN Good(Str(str.v), str.n) ELSE Bad
        [] c = "[" -> IF At(s, SkipWs(s, j + 1)) = "]"
                      THEN Good(List(<<>>), SkipWs(s, j + 1) + 1)
                      ELSE ParseItems(s, j + 1, <<>>)
        [] c = "{" -> IF At(s, SkipWs(s, j + 1)) = "}"
                      THEN Good(Dict(<<>>), SkipWs(s, j + 1) + 1)
                      ELSE ParseMembers(s, j + 1, <<>>)
        [] IsDigit(c) -> ParseNum(s, j, 0)
        [] OTHER -> Bad

\* json.loads: the whole text is one value; [ok |-> FALSE] is JSONDecodeError.
Loads(s) ==
  LET r == ParseValue(s, 1)
  IN  IF r.ok /\ SkipWs(s, r.n) = Len(s) + 1 THEN r ELSE Bad

-----------------------------------------------------------------------------
(* The byte-width table and the size string of the listing. *)

sizeof ==
  (S_uint8 :> 1) @@ (S_uint16 :> 2) @@ (S_int16 :> 2) @@ (S_float32 :> 4)
  @@ (S_float64 :> 8)

Mebi == 1048576

\* A lookup with a default width, as sizeof.get(type, 1) would be.
LookupDefault(type) ==
  [ok |-> TRUE, w |-> IF type \in DOMAIN sizeof THEN sizeof[type] ELSE 1]

\* sizeof[type]: [ok |-> FALSE] is KeyError.
Lookup(type) ==
  IF type \in DOMAIN sizeof THEN [ok |-> TRUE, w |-> sizeof[type]]
  ELSE [ok |-> FALSE, w |-> 0]

\* f'{n/d:.0f}': the quotient rounded to the nearest integer, ties to even.
RoundHalfEven(n, d) ==
  LET q == n \div d
      r == n % d
  IN  IF 2 * r < d THEN q
      ELSE IF 2 * r > d THEN q + 1
      ELSE IF q % 2 = 0 THEN q ELSE q + 1

LessThanOneMB == <<"(", "<", "1", " ", "M", "B", ")">>
InMB(n) == <<"(">> \o Digits(n) \o <<" ", "M", "B", ")">>
InGB(n) == <<"(">> \o Digits(n) \o <<" ", "G", "B", ")">>

\* The size string of a volume of `bytes` bytes; size is bytes / 1048576.
SizeString(bytes) ==
  IF bytes > 1024 * Mebi THEN InGB(RoundHalfEven(bytes, 1024 * Mebi))
  ELSE IF bytes > Mebi THEN InMB(RoundHalfEven(bytes, Mebi))
  ELSE LessThanOneMB

Bytes(x, w) == Get(x, S_size).v[1].v * Get(x, S_size).v[2].v * Get(x, S_size).v[3].v * w

-----------------------------------------------------------------------------
(* The resolver of fetch mode. *)

Matches(values, dataset) ==
  SelectSeq(values, LAMBDA x : Normalize(Get(x, S_name).v) = dataset)

\* A resolver that keeps the last match.
PickLast(matches) == matches[Len(matches)]

Pick(matches) == matches[1]

-----------------------------------------------------------------------------
(* The working directory: a function from the names of the files present   *)
(* to their contents.                                                      *)

EmptyFs == [f \in {} |-> <<>>]

IsFile(name) == name \in DOMAIN fs

WriteFile(dir, name, data) ==
  [f \in DOMAIN dir \cup {name} |-> IF f = name THEN data ELSE dir[f]]

-----------------------------------------------------------------------------
(* Inputs: catalogs, command lines, HTTP responses, earlier files. *)

N_Ab == <<"A", " ", "b">>
N_ab == <<"a", "_", "b">>
N_A_b == <<"A", "_", "b">>
N_c == <<"c">>

U_raw == <<"h", "/", "v", ".", "r", "a", "w">>
U_alias == <<"h", "/", "a", "_", "b", ".", "j", "s", "o", "n">>

Rec(name, size, type, url, desc) ==
  Dict(<<[k |-> S_name, v |-> Str(name)],
         [k |-> S_size, v |-> List(<<Num(size[1]), Num(size[2]), Num(size[3])>>)],
         [k |-> S_type, v |-> Str(type)],
         [k |-> S_url, v |-> Str(url)],
         [k |-> S_desc, v |-> Str(desc)]>>)

R_first == Rec(N_Ab, <<256, 256, 256>>, S_uint8, U_raw, <<"x", "\"", " ", "\\">>)
R_alias == Rec(N_ab, <<1, 1, 1>>, S_uint16, U_alias, <<"\\", "\"">>)
R_badtype == Rec(N_c, <<1, 1, 1>>, S_uint32, U_raw, <<>>)

SmallRecords == {R_first, R_alias, R_badtype}

MakeCatalog(recs) ==
  Dict([k \in 1..Len(recs) |-> [k |-> <<"k">> \o Digits(k), v |-> recs[k]]])

SmallCatalogs ==
  {MakeCatalog(recs) : recs \in UNION {[1..n -> SmallRecords] : n \in 0..MaxCatalog}}

SizeTypes == DOMAIN sizeof \cup {S_uint32}

SizeDims == {<<1024, y, z>> : y \in {1, 512, 1023, 1024, 1025}, z \in {1, 3, 5, 128, 129, 192}}

SizeCatalogs ==
  {MakeCatalog(<<Rec(N_Ab, d, t, U_raw, <<>>)>>) : d \in SizeDims, t \in SizeTypes}

Argvs ==
  {[l |-> TRUE, d |-> FALSE, name |-> None], [l |-> FALSE, d |-> FALSE, name |-> None]}
  \cup {[l |-> b, d |-> TRUE, name |-> n] : b \in {FALSE}, n \in {N_ab, N_A_b, N_c}}
  \cup {[l |-> TRUE, d |-> TRUE, name |-> N_ab]}

Html == <<"<", "h", "t", "m", "l", ">">>
ErrorDoc == Dict(<<[k |-> S_error, v |-> Str(<<"g", "o", "n", "e">>)]>>)

\* status 0: the request raised (no response).
CatalogResponses ==
  {[status |-> 0, body |-> <<>>],
   [status |-> 200, body |-> Dumps(remote, 0)],
   [status |-> 200, body |-> Html],
   [status |-> 404, body |-> Html],
   [status |-> 404, body |-> Dumps(ErrorDoc, 0)]}

V_ok == <<"v", "o", "l">>
V_404 == <<"4", "0", "4">>

VolumeResponses ==
  {[status |-> 0, body |-> <<>>],
   [status |-> 200, body |-> V_ok],
   [status |-> 404, body |-> V_404]}

Truncated == <<"t", "r", "u", "n", "c">>

InitialFs ==
  {EmptyFs} \cup {[f \in {name} |-> Truncated] : name \in {Basename(U_raw), Basename(U_alias)}}

-----------------------------------------------------------------------------
(* The script, one action per step. *)

NoArgv == [l |-> FALSE, d |-> FALSE, name |-> None]

InitRun ==
  /\ pc = "start"
  /\ argv = NoArgv
  /\ args = [do_list |-> FALSE, dataset |-> None]
  /\ exit = -1
  /\ err = "none"
  /\ index = Unset
  /\ i = 0
  /\ meta = Unset
  /\ stdout = <<>>
  /\ gets = <<>>
  /\ runs = 1

Init ==
  /\ InitRun
  /\ remote \in SmallCatalogs
  /\ fs \in InitialFs
  /\ pre = fs

InitSizes ==
  /\ InitRun
  /\ remote \in SizeCatalogs
  /\ fs = EmptyFs
  /\ pre = fs

Line(kind, name, size) == [kind |-> kind, name |-> name, size |-> size]

\* An unhandled exception: the traceback is printed and the exit status is 1.
Raise(e) ==
  /\ pc' = "exited"
  /\ exit' = 1
  /\ err' = e

Exit0 ==
  /\ pc' = "exited"
  /\ exit' = 0
  /\ err' = err

\* The mutually exclusive group: -l together with -d is a usage error.
Conflict(a) == a.l /\ a.d

\* A parser that lists when neither flag is given.
NamespaceDefaultList(a) == [do_list |-> a.l \/ ~a.d, dataset |-> a.name]

\* The namespace parse_args returns.
Namespace(a) == [do_list |-> a.l, dataset |-> a.name]

ParseArgs ==
  /\ pc = "start"
  /\ \E a \in Argvs :
       /\ argv' = a
       /\ IF Conflict(a)
          THEN /\ pc' = "exited"
               /\ exit' = 2
               /\ err' = "usage"
               /\ args' = args
          ELSE /\ pc' = "get_catalog"
               /\ args' = Namespace(a)
               /\ UNCHANGED <<exit, err>>
  /\ UNCHANGED <<index, i, meta, stdout, fs, gets, pre, runs, remote>>

\* requests.get raises only when there is no response.
RequestRaises(resp) == resp.status = 0

GetCatalog ==
  /\ pc = "get_catalog"
  /\ \E resp \in CatalogResponses :
       /\ gets' = Append(gets, [url |-> CatalogUrl, status |-> resp.status, body |-> resp.body])
       /\ IF RequestRaises(resp)
          THEN Raise("ConnectionError") /\ UNCHANGED <<index, i, stdout>>
          ELSE LET doc == Loads(resp.body)
               IN  IF ~doc.ok
                   THEN Raise("JSONDecodeError") /\ UNCHANGED <<index, i, stdout>>
                   ELSE /\ index' = doc.v
                        /\ UNCHANGED <<exit, err>>
                        /\ IF args.do_list
                           THEN /\ pc' = "list"
                                /\ i' = 1
                                /\ stdout' = Append(stdout, Line("header", <<>>, <<>>))
                           ELSE /\ pc' = "resolve"
                                /\ UNCHANGED <<i, stdout>>
  /\ UNCHANGED <<argv, args, meta, fs, pre, runs, remote>>

\* A loop body that prints the name before it computes the size.
ListStepPrintFirst ==
  /\ pc = "list"
  /\ i <= Len(Values(index))
  /\ LET x == Values(index)[i]
     IN  IF x.t # "dict"
         THEN Raise("TypeError") /\ UNCHANGED <<i, stdout>>
         ELSE LET w == Lookup(Get(x, S_type).v)
                  name == Normalize(Get(x, S_name).v)
              IN  IF ~w.ok
                  THEN /\ Raise("KeyError")
                       /\ stdout' = Append(stdout, Line("entry", name, <<>>))
                       /\ UNCHANGED i
                  ELSE /\ stdout' = Append(stdout, Line("entry", name, SizeString(Bytes(x, w.w))))
                       /\ i' = i + 1
                       /\ UNCHANGED <<pc, exit, err>>
  /\ UNCHANGED <<argv, args, index, meta, fs, gets, pre, runs, remote>>

ListStep ==
  /\ pc = "list"
  /\ i <= Len(Values(index))
  /\ LET x == Values(index)[i]
     IN  IF x.t # "dict"
         THEN Raise("TypeError") /\ UNCHANGED <<i, stdout>>
         ELSE LET w == Lookup(Get(x, S_type).v)
                  name == Normalize(Get(x, S_name).v)
              IN  IF ~w.ok
                  THEN Raise("KeyError") /\ UNCHANGED <<i, stdout>>
                  ELSE /\ stdout' = Append(stdout, Line("entry", name, SizeString(Bytes(x, w.w))))
                       /\ i' = i + 1
                       /\ UNCHANGED <<pc, exit, err>>
  /\ UNCHANGED <<argv, args, index, meta, fs, gets, pre, runs, remote>>

ListExit ==
  /\ pc = "list"
  /\ i > Len(Values(index))
  /\ Exit0
  /\ UNCHANGED <<argv, args, index, i, meta, stdout, fs, gets, pre, runs, remote>>

\* A resolver that opens the metadata file before it looks the name up.
ResolveOpenFirst ==
  /\ pc = "resolve"
  /\ IF \E k \in 1..Len(Values(index)) : Values(index)[k].t # "dict"
     THEN Raise("TypeError") /\ UNCHANGED <<meta, stdout, fs>>
     ELSE LET matches == Matches(Values(index), args.dataset)
          IN  /\ fs' = WriteFile(fs, args.dataset \o DotJson, <<>>)
              /\ IF matches = <<>>
                 THEN Raise("IndexError") /\ UNCHANGED <<meta, stdout>>
                 ELSE /\ meta' = Pick(matches)
                      /\ stdout' = Append(stdout, Line("meta", Dumps(Pick(matches), 0), <<>>))
                      /\ pc' = "write_meta"
                      /\ UNCHANGED <<exit, err>>
  /\ UNCHANGED <<argv, args, index, i, gets, pre, runs, remote>>

Resolve ==
  /\ pc = "resolve"
  /\ IF \E k \in 1..Len(Values(index)) : Values(index)[k].t # "dict"
     THEN Raise("TypeError") /\ UNCHANGED <<meta, stdout>>
     ELSE LET matches == Matches(Values(index), args.dataset)
          IN  IF matches = <<>>
              THEN Raise("IndexError") /\ UNCHANGED <<meta, stdout>>
              ELSE /\ meta' = Pick(matches)
                   /\ stdout' = Append(stdout, Line("meta", Dumps(Pick(matches), 0), <<>>))
                   /\ pc' = "write_meta"
                   /\ UNCHANGED <<exit, err>>
  /\ UNCHANGED <<argv, args, index, i, fs, gets, pre, runs, remote>>

WriteMeta ==
  /\ pc = "write_meta"
  /\ fs' = WriteFile(fs, args.dataset \o DotJson, Dumps(meta, 0))
  /\ pc' = "volume"
  /\ UNCHANGED <<argv, args, exit, err, index, i, meta, stdout, gets, pre, runs, remote>>

volume_file == Basename(Get(meta, S_url).v)

VolumeSkip ==
  /\ pc = "volume"
  /\ IsFile(volume_file)
  /\ stdout' = Append(stdout, Line("exists", volume_file, <<>>))
  /\ Exit0
  /\ UNCHANGED <<argv, args, index, i, meta, fs, gets, pre, runs, remote>>

VolumeFetch ==
  /\ pc = "volume"
  /\ ~IsFile(volume_file)
  /\ stdout' = Append(stdout, Line("fetching", Get(meta, S_url).v, <<>>))
  /\ \E resp \in VolumeResponses :
       /\ gets' = Append(gets, [url |-> Get(meta, S_url).v, status |-> resp.status,
                                body |-> resp.body])
       /\ IF RequestRaises(resp)
          THEN Raise("ConnectionError") /\ UNCHANGED fs
          ELSE /\ fs' = WriteFile(fs, volume_file, resp.body)
               /\ Exit0
  /\ UNCHANGED <<argv, args, index, i, meta, pre, runs, remote>>

\* The script is invoked again in the same working directory.
NewRun ==
  /\ pc = "exited"
  /\ runs < MaxRuns
  /\ runs' = runs + 1
  /\ pc' = "start"
  /\ argv' = NoArgv
  /\ args' = [do_list |-> FALSE, dataset |-> None]
  /\ exit' = -1
  /\ err' = "none"
  /\ index' = Unset
  /\ i' = 0
  /\ meta' = Unset
  /\ stdout' = <<>>
  /\ gets' = <<>>
  /\ pre' = fs
  /\ UNCHANGED <<fs, remote>>

Next ==
  \/ ParseArgs
  \/ GetCatalog
  \/ ListStep
  \/ ListExit
  \/ Resolve
  \/ WriteMeta
  \/ VolumeSkip
  \/ VolumeFetch
  \/ NewRun

Spec == Init /\ [][Next]_vars

SpecSizes == InitSizes /\ [][Next]_vars

-----------------------------------------------------------------------------
(* Vocabulary of the properties. *)

Exited == pc = "exited"

\* The catalog has been decoded into a mapping of records.
Decoded ==
  /\ index # Unset
  /\ index.t = "dict"
  /\ \A k \in 1..Len(index.v) : index.v[k].v.t = "dict"

Records == Values(index)

NormalizedName(x) == Normalize(Get(x, S_name).v)

Entries == SelectSeq(stdout, LAMBDA line : line.kind = "entry")

Listing == SelectSeq(stdout, LAMBDA line : line.kind \in {"header", "entry"})

\* The run resolved a record (fetch mode got past the resolver).
Resolved == meta # Unset

MetaFile == NormalizedName(meta) \o DotJson

Url == Get(meta, S_url).v

Is2xx(status) == status >= 200 /\ status <= 299

RoundHalfUp(n, d) == (n \div d) + (IF 2 * (n % d) >= d THEN 1 ELSE 0)

\* The size string the stated policy allows for a volume of `bytes` bytes,
\* with either way of rounding a tie.
PolicyStrings(bytes) ==
  IF bytes < Mebi THEN {LessThanOneMB}
  ELSE IF bytes <= 1024 * Mebi
       THEN {InMB(RoundHalfEven(bytes, Mebi)), InMB(RoundHalfUp(bytes, Mebi))}
       ELSE {InGB(RoundHalfEven(bytes, 1024 * Mebi)), InGB(RoundHalfUp(bytes, 1024 * Mebi))}

\* The k-th printed entry belongs to the k-th record of the catalog.
EntryBytes(k) == Bytes(Records[k], sizeof[Get(Records[k], S_type).v])

-----------------------------------------------------------------------------
(* C1: every listed record's size string follows the policy on            *)
(* byte_size_mb: below 1 it is '(<1 MB)', from 1 to 1024 inclusive it is   *)
(* the value in MB, above 1024 the value in GB; a record of exactly        *)
(* 1048576 bytes is reported in MB, not as '(<1 MB)'.                      *)
C1_SizePolicy ==
  (args.do_list /\ Decoded) =>
    \A k \in 1..Len(Entries) : Entries[k].size \in PolicyStrings(EntryBytes(k))

\* The policy away from the tie at exactly 1 MB, which is where the listing
\* and the policy part.
C1_SizePolicyOffTie ==
  (args.do_list /\ Decoded) =>
    \A k \in 1..Len(Entries) :
      EntryBytes(k) # Mebi => Entries[k].size \in PolicyStrings(EntryBytes(k))

C1_OneMBListed ==
  /\ args.do_list /\ Decoded /\ Exited /\ exit = 0
  /\ Len(Entries) = 1
  /\ EntryBytes(1) = Mebi
  /\ Entries[1].size = LessThanOneMB

-----------------------------------------------------------------------------
(* C2: once a record is resolved, a file named basename(url) that is       *)
(* present is never rewritten and no GET is issued while it is present:    *)
(* the volume step skips it, and over a sequence of runs the file is       *)
(* written at most once, so a truncated or corrupt file is never replaced. *)
C2_ExistingVolumeNeverRewritten ==
  [][(Resolved /\ pc \in {"write_meta", "volume"} /\ IsFile(volume_file))
       => /\ gets' = gets
          /\ volume_file \in DOMAIN fs'
          /\ fs'[volume_file] = fs[volume_file]]_vars

\* The volume step alone: a present file means no GET and no write.
C2_VolumeStepSkips ==
  [][(pc = "volume" /\ IsFile(volume_file)) => (gets' = gets /\ fs' = fs /\ pc' = "exited")]_vars

-----------------------------------------------------------------------------
(* C3: the resolved record is the first record in catalog order whose      *)
(* normalized name equals the supplied name exactly; several matches raise *)
(* no error, and the lookup error is raised only when none matches.        *)
C3_FirstMatchWins ==
  /\ Resolved =>
       \E k \in 1..Len(Records) :
         /\ meta = Records[k]
         /\ NormalizedName(Records[k]) = args.dataset
         /\ \A j \in 1..(k - 1) : NormalizedName(Records[j]) # args.dataset
  /\ (Exited /\ err = "IndexError") =>
       \A k \in 1..Len(Records) : NormalizedName(Records[k]) # args.dataset

C3_TwoMatchesFirstTaken ==
  /\ Resolved /\ Exited
  /\ \E j, k \in 1..Len(Records) :
       /\ j < k
       /\ NormalizedName(Records[j]) = args.dataset
       /\ NormalizedName(Records[k]) = args.dataset
       /\ Records[j] # Records[k]
       /\ Get(Records[j], S_name).v # args.dataset
       /\ meta = Records[j]

-----------------------------------------------------------------------------
(* C4: in fetch mode, when no record's normalized name equals the supplied *)
(* name, the run fails with a lookup error and a non-zero status before    *)
(* any effect of the fetch: the working directory is as it was, and the    *)
(* catalog GET is the only request.                                        *)
NoRecordMatches ==
  /\ pc # "start" /\ ~argv.l /\ argv.d
  /\ Decoded
  /\ \A k \in 1..Len(Records) : NormalizedName(Records[k]) # argv.name

C4_NotFoundNoEffects ==
  NoRecordMatches =>
    /\ pc \in {"resolve", "exited"}
    /\ Exited => (err = "IndexError" /\ exit # 0)
    /\ fs = pre
    /\ Len(gets) = 1 /\ gets[1].url = CatalogUrl
    /\ ~Resolved

C4_NotFoundReached ==
  /\ NoRecordMatches /\ Exited
  /\ argv.name = N_A_b
  /\ \E k \in 1..Len(Records) : NormalizedName(Records[k]) = Normalize(argv.name)
  /\ pre # EmptyFs

-----------------------------------------------------------------------------
(* C5: a non-2xx status on the catalog GET or on the volume GET is fatal:  *)
(* the run ends with a non-zero status and the body is not used, so it is  *)
(* neither decoded as the catalog nor written to the volume file.          *)
C5_Non2xxIsFatal ==
  \A k \in 1..Len(gets) :
    (gets[k].status # 0 /\ ~Is2xx(gets[k].status)) =>
      /\ Exited /\ exit # 0
      /\ gets[k].url = CatalogUrl => index = Unset
      /\ gets[k].url # CatalogUrl => fs = pre

\* The volume half alone: a run never exits 0 after a non-2xx volume GET.
C5_Non2xxVolumeIsFatal ==
  (Exited /\ exit = 0) =>
    \A k \in 1..Len(gets) : (gets[k].url # CatalogUrl) => Is2xx(gets[k].status)

-----------------------------------------------------------------------------
(* C6: a failing run leaves no partial result: it never ends with the      *)
(* metadata file written and the volume file absent, and never with lines  *)
(* printed for some records of the catalog but not for all.                *)
C6_NoPartialResult ==
  (Exited /\ exit # 0) =>
    /\ ~(Resolved /\ MetaFile \in DOMAIN fs /\ volume_file \notin DOMAIN fs)
    /\ ~(args.do_list /\ Decoded /\ Len(Entries) > 0 /\ Len(Entries) < Len(Records))

(* C6 as amended: a run that exits 0 has completed its mode; a run that    *)
(* fails keeps the effects made before the failure: a fetch-mode run whose *)
(* volume GET raises ends with the metadata file written, the volume file  *)
(* absent and every other file as before, and a list-mode run that meets a *)
(* record whose type is not in the byte-width table ends having printed    *)
(* the lines of exactly the records before it.                             *)
C6_FailureKeepsEarlierEffects ==
  /\ (Exited /\ exit = 0 /\ args.do_list) =>
       /\ Len(Entries) = Len(Records)
       /\ fs = pre
  /\ (Exited /\ exit = 0 /\ ~args.do_list) =>
       /\ Resolved
       /\ MetaFile \in DOMAIN fs /\ volume_file \in DOMAIN fs
  /\ (Exited /\ exit # 0 /\ Resolved) =>
       /\ err = "ConnectionError"
       /\ Len(gets) = 2 /\ gets[2].url = Url /\ gets[2].status = 0
       /\ fs = WriteFile(pre, MetaFile, Dumps(meta, 0))
       /\ volume_file \notin DOMAIN fs
  /\ (Exited /\ err = "KeyError") =>
       /\ args.do_list /\ exit # 0
       /\ i \in 1..Len(Records)
       /\ Get(Records[i], S_type).v \notin DOMAIN sizeof
       /\ Len(Entries) = i - 1
       /\ \A k \in 1..(i - 1) : Entries[k].name = NormalizedName(Records[k])
       /\ fs = pre

\* A second run fails in the middle of the listing in a directory where an
\* earlier failing fetch left the metadata file without the volume file.
C6_PartialResultsReached ==
  /\ Exited /\ err = "KeyError"
  /\ i = 2 /\ Len(Entries) = 1
  /\ (N_ab \o DotJson) \in DOMAIN fs
  /\ fs[N_ab \o DotJson] = Dumps(Records[1], 0)
  /\ Basename(Get(Records[1], S_url).v) \notin DOMAIN fs

-----------------------------------------------------------------------------
(* C7: after the metadata step of a fetch-mode run for a resolved record,  *)
(* the file named by the record's normalized name and '.json' exists and   *)
(* its content parses as JSON to a record equal to the resolved one, field *)
(* for field, whatever the file held before and also when the volume       *)
(* download is skipped.                                                    *)
C7_MetadataRoundTrip ==
  (Resolved /\ pc \in {"volume", "exited"}) =>
    /\ MetaFile \in DOMAIN fs
    /\ Loads(fs[MetaFile]).ok
    /\ Loads(fs[MetaFile]).v = meta

C7_OverwrittenAndSkipped ==
  /\ Resolved /\ Exited /\ exit = 0
  /\ MetaFile \in DOMAIN pre
  /\ pre[MetaFile] = Truncated
  /\ Len(gets) = 1
  /\ \E c \in 1..Len(Get(meta, S_desc).v) : Get(meta, S_desc).v[c] = "\""
  /\ Loads(fs[MetaFile]).v = meta

-----------------------------------------------------------------------------
(* C8: an invocation with both -l and -d, or with neither, exits with a    *)
(* non-zero status, prints no dataset listing and creates or modifies no   *)
(* file.                                                                   *)
C8_ExactlyOneFlag ==
  (pc # "start" /\ argv.l = argv.d) =>
    /\ pc \in {"get_catalog", "resolve", "exited"}
    /\ Exited => exit # 0
    /\ Listing = <<>>
    /\ fs = pre

C8_NeitherFlagFails ==
  /\ Exited /\ ~argv.l /\ ~argv.d
  /\ Decoded /\ Len(Records) > 0
  /\ err = "IndexError" /\ exit = 1

-----------------------------------------------------------------------------
(* C9: the byte width comes only from the table; when list mode reaches a  *)
(* record whose type is not in it, the run fails with a lookup error and a *)
(* non-zero status, and no line is printed for that record or for any      *)
(* record after it.                                                        *)
UnknownType(k) ==
  Get(Records[k], S_type).v \notin {S_uint8, S_uint16, S_int16, S_float32, S_float64}

C9_UnknownTypeAbortsListing ==
  (args.do_list /\ Decoded) =>
    /\ \A k \in 1..Len(Entries) : ~UnknownType(k)
    /\ \A b \in 1..Len(Records) :
         UnknownType(b) =>
           /\ Len(Entries) < b
           /\ Exited => (err = "KeyError" /\ exit # 0)

C9_AbortedBeforeLaterRecord ==
  /\ args.do_list /\ Decoded /\ Exited
  /\ err = "KeyError"
  /\ i < Len(Records)
  /\ ~UnknownType(i + 1)
  /\ Len(Entries) = i - 1

-----------------------------------------------------------------------------
(* C10: after a fetch-mode run that exits 0, the file named basename(url)  *)
(* of the resolved record holds either the bytes it held before the run or *)
(* the response body of the GET to url, also when that name is the name of *)
(* the metadata file.                                                      *)
C10_VolumeIsOldOrFetched ==
  (Exited /\ exit = 0 /\ Resolved) =>
    /\ volume_file \in DOMAIN fs
    /\ \/ volume_file \in DOMAIN pre /\ fs[volume_file] = pre[volume_file]
       \/ \E k \in 1..Len(gets) :
            /\ gets[k].url = Url
            /\ gets[k].status # 0
            /\ fs[volume_file] = gets[k].body

\* The same, for the records whose volume file is not their metadata file.
C10_VolumeIsOldOrFetchedNoAlias ==
  (Exited /\ exit = 0 /\ Resolved /\ volume_file # MetaFile) =>
    /\ volume_file \in DOMAIN fs
    /\ \/ volume_file \in DOMAIN pre /\ fs[volume_file] = pre[volume_file]
       \/ \E k \in 1..Len(gets) :
            /\ gets[k].url = Url
            /\ gets[k].status # 0
            /\ fs[volume_file] = gets[k].body

=============================================================================
